---------------------------- MODULE Spec2Model ----------------------------
(***************************************************************************)
(* NaivePerfectHash (niaveperfecthasher.py): a mapping kept in one list of *)
(* slots, indexed by hash(key) % len, that doubles the list on a collision.*)
(*                                                                         *)
(* The Python list self._hashtable is a sequence; Python index i is        *)
(* position i + 1.  A slot is None or the tuple (key, value).  Keys are    *)
(* Python ints, hashed as CPython hashes small ints.  __setitem__ is the   *)
(* only method with a loop; it is modelled step by step (pc), every other  *)
(* method is one action.  Methods run one at a time (pc = "idle").         *)
(***************************************************************************)
EXTENDS Integers, Sequences, FiniteSets, TLC

VARIABLES
    size,       \* the size argument __init__ was called with
    hashtable,  \* self._hashtable
    pc,         \* "idle", or the position inside a running __setitem__
    args,       \* (key, value, len at the call) of the running __setitem__
    ret,        \* the last call that returned or raised
    written,    \* history: key -> value of the last completed set, minus dels
    mainpc      \* number of calls of the __main__ example made so far, -1 if
                \* the calls made are not a prefix of the example

vars == <<size, hashtable, pc, args, ret, written, mainpc>>

----------------------------------------------------------------------------
(* Bounds *)

MaxSizeExp == 2      \* __init__ sizes are 2^0 .. 2^MaxSizeExp
MaxMult == 2         \* keys 4, 8, .. 4 * MaxMult (all collide in 4 slots)
MaxLen == 32         \* no list longer than this is allocated
MainMaxLen == 2048   \* the same, for the __main__ example
MaxOddSize == 6      \* the largest __init__ size that is not a power of two

----------------------------------------------------------------------------
(* Values of the program *)

INITIAL_SIZE == 4

\* The None of an empty slot.  A slot is None or <<key, value>>.
None == <<>>

\* The None a method returns (get's default, __setitem__, __delitem__),
\* as a value outside Values.
NoneVal == 0

\* Keys -1 and -2 are distinct and have the same hash; 0, 4, 8, .. share
\* slot 0 of a list of 4, and 0 and 8 that of a list of 8.
Keys == {-2, -1, 0, 1} \cup {4 * m : m \in 1..MaxMult}

Values == {2, 3}

Defaults == {NoneVal, 42}

Sizes == {2^e : e \in 0..MaxSizeExp}

\* The keys and the constructor of the __main__ example.
MainKeys == {0, 1024}

\* hash() of a CPython int below 2^61 - 1 in absolute value: the int itself,
\* except that -1 is reserved for errors and hashes to -2.
hash(key) == IF key = -1 THEN -2 ELSE key

----------------------------------------------------------------------------
(* Methods, as operators over the list *)

len(t) == Len(t)

\* _fetchindex comparing the slot's tuple, not its key, with the key.
_fetchindex_item(t, key) ==
    LET index == hash(key) % len(t)
        item == t[index + 1]
    IN  IF item = None THEN <<"None", index>>
        ELSE IF item = <<key>> THEN <<"True", index>>
        ELSE <<"False", index>>

\* The found flag of _fetchindex is True, None or False.
_fetchindex(t, key) ==
    LET index == hash(key) % len(t)
        item == t[index + 1]
    IN  IF item = None THEN <<"None", index>>
        ELSE IF item[1] = key THEN <<"True", index>>
        ELSE <<"False", index>>

\* "if found:" holds for True only (None and False are falsy).
truthy(found) == found = "True"

__contains__(t, key) == _fetchindex(t, key)[1] = "True"

\* get testing "found is not None": it returns the value of another key.
get_any(t, key, default) ==
    LET r == _fetchindex(t, key)
    IN  IF r[1] # "None" THEN t[r[2] + 1][2] ELSE default

get(t, key, default) ==
    LET r == _fetchindex(t, key)
    IN  IF truthy(r[1]) THEN t[r[2] + 1][2] ELSE default

\* <<raised, value>>
__getitem__(t, key) ==
    LET r == _fetchindex(t, key)
    IN  IF truthy(r[1]) THEN <<FALSE, t[r[2] + 1][2]>> ELSE <<TRUE, NoneVal>>

\* __delitem__ that empties the whole list.
__delitem___clear(t, key) ==
    LET r == _fetchindex(t, key)
    IN  IF truthy(r[1]) THEN <<FALSE, [i \in 1..Len(t) |-> None], NoneVal>>
        ELSE <<TRUE, t, NoneVal>>

\* __delitem__ that leaves the slot as it is.
__delitem___keep(t, key) ==
    LET r == _fetchindex(t, key)
    IN  IF truthy(r[1]) THEN <<FALSE, t, NoneVal>> ELSE <<TRUE, t, NoneVal>>

\* __delitem__ testing "found is not None": it empties a slot held by
\* another key.
__delitem___any(t, key) ==
    LET r == _fetchindex(t, key)
    IN  IF r[1] # "None" THEN <<FALSE, [t EXCEPT ![r[2] + 1] = None], NoneVal>>
        ELSE <<TRUE, t, NoneVal>>

\* <<raised, the list afterwards, the value returned>>
__delitem__(t, key) ==
    LET r == _fetchindex(t, key)
    IN  IF truthy(r[1]) THEN <<FALSE, [t EXCEPT ![r[2] + 1] = None], NoneVal>>
        ELSE <<TRUE, t, NoneVal>>

\* items that starts at index 1.
items_from1(t) == SelectSeq(Tail(t), LAMBDA item : item # None)

\* filter(None, list) keeps the truthy slots; a 2-tuple is always truthy.
items(t) == SelectSeq(t, LAMBDA item : item # None)

keys(t) == [i \in 1..Len(items(t)) |-> items(t)[i][1]]

\* values that yields from the last slot to the first.
values_rev(t) ==
    [i \in 1..Len(items(t)) |-> items(t)[Len(items(t)) + 1 - i][2]]

values(t) == [i \in 1..Len(items(t)) |-> items(t)[i][2]]

__iter__(t) == keys(t)

\* Allocations of another length: 3 * len, 4 * len, len.
newtable_triple(t) == [i \in 1..(3 * len(t)) |-> None]

newtable_quad(t) == [i \in 1..(4 * len(t)) |-> None]

newtable_same(t) == [i \in 1..len(t) |-> None]

\* The allocation of _doublethehash.
newtable(t) == [i \in 1..(2 * len(t)) |-> None]

\* The for loop taking the index modulo the old length.
RECURSIVE rehash_old(_, _)
rehash_old(its, newhashtable) ==
    IF its = <<>> THEN newhashtable
    ELSE LET newindex == hash(Head(its)[1]) % (len(newhashtable) \div 2)
         IN  rehash_old(Tail(its),
                        [newhashtable EXCEPT ![newindex + 1] = Head(its)])

\* The for loop that stops after the first item.
rehash_first(its, newhashtable) ==
    IF its = <<>> THEN newhashtable
    ELSE LET newindex == hash(Head(its)[1]) % len(newhashtable)
         IN  [newhashtable EXCEPT ![newindex + 1] = Head(its)]

\* The for loop of _doublethehash over the items still to place.
RECURSIVE rehash(_, _)
rehash(its, newhashtable) ==
    IF its = <<>> THEN newhashtable
    ELSE LET newindex == hash(Head(its)[1]) % len(newhashtable)
         IN  rehash(Tail(its),
                    [newhashtable EXCEPT ![newindex + 1] = Head(its)])

\* _doublethehash that skips the first item.
_doublethehash_tail(t) ==
    IF items(t) = <<>> THEN newtable(t) ELSE rehash(Tail(items(t)), newtable(t))

_doublethehash(t) == rehash(items(t), newtable(t))

----------------------------------------------------------------------------
(* Calls and their outcomes *)

NoRet == [op |-> "none", key |-> 0, value |-> NoneVal,
          result |-> NoneVal, raised |-> FALSE]

Returned(op, key, value, result) ==
    [op |-> op, key |-> key, value |-> value,
     result |-> result, raised |-> FALSE]

Raised(op, key) ==
    [op |-> op, key |-> key, value |-> NoneVal,
     result |-> NoneVal, raised |-> TRUE]

\* The record of a __setitem__ that returned; found is the flag _fetchindex
\* gave at line 57.
SetReturned(key, value, found) ==
    [op |-> "set", key |-> key, value |-> value,
     result |-> NoneVal, raised |-> FALSE, found |-> found]

\* The calls of the __main__ example, in order.
MainScript ==
    << [op |-> "set",  key |-> 0,    value |-> 2],
       [op |-> "len",  key |-> 0,    value |-> NoneVal],
       [op |-> "set",  key |-> 1024, value |-> 3],
       [op |-> "len",  key |-> 0,    value |-> NoneVal],
       [op |-> "get",  key |-> 0,    value |-> 42],
       [op |-> "del",  key |-> 0,    value |-> NoneVal],
       [op |-> "iter", key |-> 0,    value |-> NoneVal] >>

\* The call (op, key, value) is the next call of the example.
MainExpects(op, key, value) ==
    /\ mainpc \in 0..(Len(MainScript) - 1)
    /\ MainScript[mainpc + 1] = [op |-> op, key |-> key, value |-> value]

\* The position in the example after the call recorded in r.
MainStep(r) == IF MainExpects(r.op, r.key, r.value) THEN mainpc + 1 ELSE -1

Done(r) ==
    /\ ret' = r
    /\ mainpc' = MainStep(r)

----------------------------------------------------------------------------
(* The state after __init__(size) *)

Construct(s) ==
    /\ size = s
    /\ hashtable = [i \in 1..s |-> None]
    /\ pc = "idle"
    /\ args = <<>>
    /\ ret = NoRet
    /\ written = <<>>
    /\ mainpc = 0

Init == \E s \in Sizes : Construct(s)

InitMain == Construct(INITIAL_SIZE)

----------------------------------------------------------------------------
(* Actions *)

\* __len__ returning the number of entries.
LenCall_count ==
    /\ pc = "idle"
    /\ Done(Returned("len", 0, NoneVal, Len(items(hashtable))))
    /\ UNCHANGED <<size, hashtable, pc, args, written>>

LenCall ==
    /\ pc = "idle"
    /\ Done(Returned("len", 0, NoneVal, len(hashtable)))
    /\ UNCHANGED <<size, hashtable, pc, args, written>>

Contains(key) ==
    /\ pc = "idle"
    /\ Done(Returned("contains", key, NoneVal, __contains__(hashtable, key)))
    /\ UNCHANGED <<size, hashtable, pc, args, written>>

Get(key, default) ==
    /\ pc = "idle"
    /\ Done(Returned("get", key, default, get(hashtable, key, default)))
    /\ UNCHANGED <<size, hashtable, pc, args, written>>

GetItem(key) ==
    /\ pc = "idle"
    /\ LET r == __getitem__(hashtable, key)
       IN  Done(IF r[1] THEN Raised("getitem", key)
                ELSE Returned("getitem", key, NoneVal, r[2]))
    /\ UNCHANGED <<size, hashtable, pc, args, written>>

\* __setitem__ with the loop test "found is not None": a key that is stored
\* already starts the loop too.
SetItem_grow(key, value) ==
    /\ pc = "idle"
    /\ LET r == _fetchindex(hashtable, key)
       IN  IF r[1] # "None"
           THEN /\ pc' = "double"
                /\ args' = [key |-> key, value |-> value, len0 |-> len(hashtable)]
                /\ ret' = NoRet
                /\ mainpc' = IF MainExpects("set", key, value) THEN mainpc ELSE -1
                /\ UNCHANGED <<hashtable, written>>
           ELSE /\ hashtable' = [hashtable EXCEPT ![r[2] + 1] = <<key, value>>]
                /\ written' = [k \in DOMAIN written \cup {key} |->
                                 IF k = key THEN value ELSE written[k]]
                /\ Done(SetReturned(key, value, r[1]))
                /\ UNCHANGED <<pc, args>>
    /\ UNCHANGED size

\* __setitem__ when the while loop is not entered: lines 57, 58 and 62.
\* When it is entered: lines 57 and 58, the loop is the next step.
SetItem(key, value) ==
    /\ pc = "idle"
    /\ LET r == _fetchindex(hashtable, key)
       IN  IF r[1] = "False"
           THEN /\ pc' = "double"
                /\ args' = [key |-> key, value |-> value, len0 |-> len(hashtable)]
                /\ ret' = NoRet
                /\ mainpc' = IF MainExpects("set", key, value) THEN mainpc ELSE -1
                /\ UNCHANGED <<hashtable, written>>
           ELSE /\ hashtable' = [hashtable EXCEPT ![r[2] + 1] = <<key, value>>]
                /\ written' = [k \in DOMAIN written \cup {key} |->
                                 IF k = key THEN value ELSE written[k]]
                /\ Done(SetReturned(key, value, r[1]))
                /\ UNCHANGED <<pc, args>>
    /\ UNCHANGED size

\* An iteration that doubles twice before it looks at the slot again.
SetDouble_twice(maxlen) ==
    /\ pc = "double"
    /\ 4 * len(hashtable) <= maxlen
    /\ hashtable' = _doublethehash(_doublethehash(hashtable))
    /\ pc' = IF _fetchindex(hashtable', args.key)[1] = "False"
             THEN "double" ELSE "write"
    /\ UNCHANGED <<size, args, ret, written, mainpc>>

\* The loop as an "if": one doubling, then the write.
SetDouble_once(maxlen) ==
    /\ pc = "double"
    /\ 2 * len(hashtable) <= maxlen
    /\ hashtable' = _doublethehash(hashtable)
    /\ pc' = "write"
    /\ UNCHANGED <<size, args, ret, written, mainpc>>

\* One iteration of the while loop: lines 59 and 60, and the test of 58.
SetDouble(maxlen) ==
    /\ pc = "double"
    /\ 2 * len(hashtable) <= maxlen
    /\ hashtable' = _doublethehash(hashtable)
    /\ pc' = IF _fetchindex(hashtable', args.key)[1] = "False"
             THEN "double" ELSE "write"
    /\ UNCHANGED <<size, args, ret, written, mainpc>>

\* Line 62 with the index found before the loop (line 60 not re-assigning it).
SetWrite_stale ==
    /\ pc = "write"
    /\ hashtable' = [hashtable EXCEPT ![(hash(args.key) % args.len0) + 1]
                                         = <<args.key, args.value>>]
    /\ written' = [k \in DOMAIN written \cup {args.key} |->
                     IF k = args.key THEN args.value ELSE written[k]]
    /\ pc' = "idle"
    /\ args' = <<>>
    /\ Done(SetReturned(args.key, args.value, "False"))
    /\ UNCHANGED size

\* Line 62 after the loop, and the return.
SetWrite ==
    /\ pc = "write"
    /\ LET r == _fetchindex(hashtable, args.key)
       IN  hashtable' = [hashtable EXCEPT ![r[2] + 1] = <<args.key, args.value>>]
    /\ written' = [k \in DOMAIN written \cup {args.key} |->
                     IF k = args.key THEN args.value ELSE written[k]]
    /\ pc' = "idle"
    /\ args' = <<>>
    /\ Done(SetReturned(args.key, args.value, "False"))
    /\ UNCHANGED size

DelItem(key) ==
    /\ pc = "idle"
    /\ LET r == __delitem__(hashtable, key)
       IN  /\ hashtable' = r[2]
           /\ IF r[1]
              THEN /\ Done(Raised("del", key))
                   /\ UNCHANGED written
              ELSE /\ Done(Returned("del", key, NoneVal, r[3]))
                   /\ written' = [k \in DOMAIN written \ {key} |-> written[k]]
    /\ UNCHANGED <<size, pc, args>>

ItemsCall ==
    /\ pc = "idle"
    /\ Done(Returned("items", 0, NoneVal, items(hashtable)))
    /\ UNCHANGED <<size, hashtable, pc, args, written>>

KeysCall ==
    /\ pc = "idle"
    /\ Done(Returned("keys", 0, NoneVal, keys(hashtable)))
    /\ UNCHANGED <<size, hashtable, pc, args, written>>

ValuesCall ==
    /\ pc = "idle"
    /\ Done(Returned("values", 0, NoneVal, values(hashtable)))
    /\ UNCHANGED <<size, hashtable, pc, args, written>>

Iter ==
    /\ pc = "idle"
    /\ Done(Returned("iter", 0, NoneVal, __iter__(hashtable)))
    /\ UNCHANGED <<size, hashtable, pc, args, written>>

Next ==
    \/ LenCall
    \/ \E key \in Keys : Contains(key)
    \/ \E key \in Keys, default \in Defaults : Get(key, default)
    \/ \E key \in Keys : GetItem(key)
    \/ \E key \in Keys, value \in Values : SetItem(key, value)
    \/ SetDouble(MaxLen)
    \/ SetWrite
    \/ \E key \in Keys : DelItem(key)
    \/ ItemsCall
    \/ KeysCall
    \/ ValuesCall
    \/ Iter

Spec == Init /\ [][Next]_vars

\* The loop of a running __setitem__ keeps running.
LiveSpec == Spec /\ WF_vars(SetDouble(MaxLen)) /\ WF_vars(SetWrite)

NextMain ==
    \/ LenCall
    \/ \E key \in MainKeys : Contains(key)
    \/ \E key \in MainKeys, default \in Defaults : Get(key, default)
    \/ \E key \in MainKeys : GetItem(key)
    \/ \E key \in MainKeys, value \in Values : SetItem(key, value)
    \/ SetDouble(MainMaxLen)
    \/ SetWrite
    \/ \E key \in MainKeys : DelItem(key)
    \/ ItemsCall
    \/ KeysCall
    \/ ValuesCall
    \/ Iter

MainSpec == InitMain /\ [][NextMain]_vars

----------------------------------------------------------------------------
(* Properties *)

RECURSIVE IsPowerOfTwo(_)
IsPowerOfTwo(n) == n = 1 \/ (n > 1 /\ n % 2 = 0 /\ IsPowerOfTwo(n \div 2))

\* The keys stored in a list, as a set.
StoredKeys(t) == {t[i][1] : i \in {j \in 1..Len(t) : t[j] # None}}

\* C1: get(key) returns the value of the last set of that key, whatever sets
\* of other keys (growth included) came after it: every key of the history
\* is looked up with its last written value, and a get that returned for
\* such a key returned that value.
C1_RoundTrip ==
    /\ \A k \in DOMAIN written : get(hashtable, k, NoneVal) = written[k]
    /\ (ret.op = "get" /\ ret.key \in DOMAIN written)
          => ret.result = written[ret.key]

\* A get of a stored key returned its value from a list that has grown and
\* holds another key too.
C1_Witness ==
    /\ ret.op = "get"
    /\ ret.key \in DOMAIN written
    /\ ret.result = written[ret.key]
    /\ ret.value # ret.result
    /\ Cardinality(DOMAIN written) >= 2
    /\ len(hashtable) > size

\* C2: len(map) is a power of two in every state and never decreases from
\* one state to the next.
C2_PowerOfTwoLen ==
    /\ [](IsPowerOfTwo(len(hashtable)))
    /\ [][len(hashtable') >= len(hashtable)]_vars

\* The list has doubled twice and a key was removed from the grown list.
C2_Witness ==
    /\ len(hashtable) >= 4 * size
    /\ ret.op = "del"
    /\ ~ret.raised

\* C3: a doubling step keeps every stored key with its value, at
\* hash(key) mod the new length, puts no two stored keys in one slot, and
\* keeps the number of occupied slots.
C3_GrowthPreserves ==
    [][pc = "double" =>
        /\ len(hashtable') = 2 * len(hashtable)
        /\ \A i \in 1..Len(hashtable) :
              hashtable[i] # None =>
                 /\ hashtable'[(hash(hashtable[i][1]) % len(hashtable')) + 1]
                       = hashtable[i]
                 /\ get(hashtable', hashtable[i][1], NoneVal) = hashtable[i][2]
        /\ \A i, j \in 1..Len(hashtable) :
              (i # j /\ hashtable[i] # None /\ hashtable[j] # None)
                 => hash(hashtable[i][1]) % len(hashtable')
                       # hash(hashtable[j][1]) % len(hashtable')
        /\ Len(items(hashtable')) = Len(items(hashtable))
    ]_vars

\* A list holding three entries has just been doubled by a running set.
C3_Witness ==
    /\ pc \in {"double", "write"}
    /\ len(hashtable) > args.len0
    /\ Len(items(hashtable)) >= 3

\* C4 as claimed: a del of a present key empties its slot and returns the
\* value that was stored.
C4_DelReturnsValue ==
    [][(ret'.op = "del" /\ __contains__(hashtable, ret'.key)) =>
        /\ ~ret'.raised
        /\ ~__contains__(hashtable', ret'.key)
        /\ ret'.result = get(hashtable, ret'.key, NoneVal)
    ]_vars

\* C4 as amended: a del of a present key empties its slot, so that the key
\* is not contained afterwards, and returns None.
C4_DelEmptiesSlot ==
    [][(ret'.op = "del" /\ __contains__(hashtable, ret'.key)) =>
        /\ ~ret'.raised
        /\ hashtable'[(hash(ret'.key) % len(hashtable)) + 1] = None
        /\ ~__contains__(hashtable', ret'.key)
        /\ ret'.result = NoneVal
    ]_vars

\* A del returned for a key that had been set; the key is gone.
C4_Witness ==
    /\ ret.op = "del"
    /\ ~ret.raised
    /\ ~__contains__(hashtable, ret.key)
    /\ ret.key \notin DOMAIN written
    /\ Len(items(hashtable)) >= 1

\* C5: del and [] raise KeyError exactly when the key is absent (its slot
\* empty or held by another key), and a call that raised left the list, and
\* so its length, unchanged.
C5_KeyErrorFrame ==
    [][ret'.op \in {"del", "getitem"} =>
        /\ ret'.raised <=> ~__contains__(hashtable, ret'.key)
        /\ ret'.raised <=> _fetchindex(hashtable, ret'.key)[1] \in {"None", "False"}
        /\ ret'.raised => hashtable' = hashtable
    ]_vars

\* A del raised for a key whose slot is held by another key, still there.
C5_Witness ==
    /\ ret.op = "del"
    /\ ret.raised
    /\ _fetchindex(hashtable, ret.key)[1] = "False"

\* C6: between calls, keys() yields exactly the keys set and not removed
\* afterwards, each once; iteration yields the same.
C6_KeysExact ==
    pc = "idle" =>
        /\ {keys(hashtable)[i] : i \in 1..Len(keys(hashtable))} = DOMAIN written
        /\ Len(keys(hashtable)) = Cardinality(DOMAIN written)
        /\ __iter__(hashtable) = keys(hashtable)
        /\ ret.op \in {"keys", "iter"} =>
              /\ {ret.result[i] : i \in 1..Len(ret.result)} = DOMAIN written
              /\ Len(ret.result) = Cardinality(DOMAIN written)

\* keys() returned two keys of a grown list.
C6_Witness ==
    /\ ret.op = "keys"
    /\ Len(ret.result) >= 2
    /\ len(hashtable) > size

\* C7: in the __main__ example (identity hash on ints): after set(0, 2) len
\* is 4; set(1024, 3) collides with key 0 and doubles while 1024 and 0 share
\* a slot, up to 2048; then get(0, 42) returns 2; and after del of 0,
\* iteration yields only 1024.
C7_MainExample ==
    /\ mainpc = 1 => len(hashtable) = 4
    /\ mainpc = 2 /\ pc = "idle" => (ret.op = "len" /\ ret.result = 4)
    /\ mainpc = 2 /\ pc = "double" =>
          /\ len(hashtable) < 2048
          /\ hash(1024) % len(hashtable) = hash(0) % len(hashtable)
    /\ mainpc = 2 /\ pc = "write" =>
          /\ len(hashtable) = 2048
          /\ hash(1024) % len(hashtable) # hash(0) % len(hashtable)
    /\ mainpc = 3 => len(hashtable) = 2048
    /\ mainpc = 4 => (ret.op = "len" /\ ret.result = 2048)
    /\ mainpc = 5 => (ret.op = "get" /\ ret.result = 2)
    /\ mainpc = 6 => (ret.op = "del" /\ ~ret.raised)
    /\ mainpc = 7 => (ret.op = "iter" /\ ret.result = <<1024>>)

\* The example has run to its last line.
C7_Witness == mainpc = 7 /\ len(hashtable) = 2048

\* The slot of the key, hash(key) mod the length, holds another key.
HeldByOther(t, key) ==
    LET slot == t[(hash(key) % Len(t)) + 1]
    IN  slot # None /\ slot[1] # key

\* C8: a set changes the length exactly when, at the call, the key's slot
\* is held by another key.  A set that finds the slot empty or holding the
\* key returns at once with the length unchanged; a set that finds another
\* key enters the loop, every loop step doubles the list, and the write
\* that follows happens at a length above the one at the call.
C8_GrowthIffCollision ==
    [][ /\ (pc = "idle" /\ ret'.op = "set") =>
              /\ ~HeldByOther(hashtable, ret'.key)
              /\ len(hashtable') = len(hashtable)
        /\ (pc = "idle" /\ pc' # "idle") =>
              /\ pc' = "double"
              /\ HeldByOther(hashtable, args'.key)
              /\ args'.len0 = len(hashtable)
              /\ hashtable' = hashtable
        /\ pc = "double" => len(hashtable') = 2 * len(hashtable)
        /\ pc = "write" =>
              /\ len(hashtable') = len(hashtable)
              /\ len(hashtable) > args.len0
              /\ ret'.op = "set"
      ]_vars

\* A set of a key already stored returned with three other slots occupied.
C8_Witness ==
    /\ pc = "idle"
    /\ ret.op = "set"
    /\ Len(items(hashtable)) >= 4
    /\ len(hashtable) = 8

\* C9: len(map) is the length of the list, whatever the number of entries:
\* a map just built with the default size has len 4 and no entry, a set
\* into an empty slot and a del that returned leave the length unchanged,
\* and the length is at least the number of keys yielded by keys().
C9_LenIsCapacity ==
    /\ [](/\ ret.op = "len" => ret.result = Len(hashtable)
          /\ (pc = "idle" /\ ret = NoRet) =>
                /\ Len(hashtable) = size
                /\ size = INITIAL_SIZE => len(hashtable) = 4
                /\ keys(hashtable) = <<>>
          /\ len(hashtable) >= Len(keys(hashtable)))
    /\ [][ /\ (pc = "idle" /\ ret'.op = "set"
                  /\ _fetchindex(hashtable, ret'.key)[1] = "None")
              => (/\ len(hashtable') = len(hashtable)
                  /\ Len(keys(hashtable')) = Len(keys(hashtable)) + 1)
           /\ (ret'.op = "del" /\ ~ret'.raised)
              => (/\ len(hashtable') = len(hashtable)
                  /\ Len(keys(hashtable')) = Len(keys(hashtable)) - 1)
         ]_vars

\* len() returned 8 for a list holding one entry.
C9_Witness ==
    /\ ret.op = "len"
    /\ ret.result = 8
    /\ Len(keys(hashtable)) = 1

\* The key of the running set has a hash different from that of every other
\* stored key.
DistinctHash ==
    /\ pc # "idle"
    /\ \A k \in StoredKeys(hashtable) :
          k # args.key => hash(k) # hash(args.key)

\* C10: a set whose key's hash differs from the hash of every other stored
\* key returns: the loop ends after finitely many doublings with the key's
\* slot empty or holding the key, and the entry is then written.
C10_SetTerminates ==
    /\ DistinctHash ~> (pc = "idle" /\ ret.op = "set")
    /\ [](pc = "write" => _fetchindex(hashtable, args.key)[1] \in {"None", "True"})
    /\ []((pc = "idle" /\ ret.op = "set") =>
             hashtable[(hash(ret.key) % len(hashtable)) + 1] = <<ret.key, ret.value>>)

\* A set left the loop after three doublings.
C10_Witness ==
    /\ pc = "write"
    /\ len(hashtable) >= 8 * args.len0
    /\ Len(items(hashtable)) >= 2

\* C11: in every state every occupied slot at index i holds a key with
\* i = hash(key) mod the length, and no key is held by two slots.
C11_SlotPlacement ==
    /\ \A i \in 1..Len(hashtable) :
          hashtable[i] # None =>
             i - 1 = hash(hashtable[i][1]) % Len(hashtable)
    /\ \A i, j \in 1..Len(hashtable) :
          (i # j /\ hashtable[i] # None /\ hashtable[j] # None)
             => hashtable[i][1] # hashtable[j][1]

\* Three entries are left in a list that doubled twice, after a del.
C11_Witness ==
    /\ pc = "idle"
    /\ ret.op = "del"
    /\ ~ret.raised
    /\ len(hashtable) >= 4 * size
    /\ Len(items(hashtable)) >= 3

\* Another stored key has the hash of key.
SameHashStored(t, key) ==
    \E k \in StoredKeys(t) : k # key /\ hash(k) = hash(key)

\* C12: a set whose key has the hash of another stored key never returns:
\* the call enters the loop, every loop step doubles the list and leaves
\* the loop running with the other key still in the key's slot, and the new
\* entry is never written.
C12_SameHashNeverReturns ==
    /\ [][ /\ (pc = "idle" /\ ret'.op = "set") =>
                 ~SameHashStored(hashtable, ret'.key)
           /\ (pc = "double" /\ SameHashStored(hashtable, args.key)) =>
                 /\ pc' = "double"
                 /\ args' = args
                 /\ len(hashtable') = 2 * len(hashtable)
                 /\ SameHashStored(hashtable', args.key)
                 /\ HeldByOther(hashtable', args.key)
         ]_vars
    /\ []((pc # "idle" /\ SameHashStored(hashtable, args.key)) =>
             /\ pc = "double"
             /\ args.key \notin StoredKeys(hashtable)
             /\ args.key \notin DOMAIN written)

\* A set of a key with the hash of a stored key has doubled the list three
\* times and is still in the loop.
C12_Witness ==
    /\ pc = "double"
    /\ SameHashStored(hashtable, args.key)
    /\ len(hashtable) >= 8 * args.len0

\* b is a * 2^n for some n >= 0.
DoublingOf(a, b) == b % a = 0 /\ IsPowerOfTwo(b \div a)

\* At length l another stored key has the slot of key.
CollidesAt(t, key, l) ==
    \E k \in StoredKeys(t) : k # key /\ hash(k) % l = hash(key) % l

\* C13: a set that met a collision leaves the loop at the first length of
\* the doubling sequence from the length at the call where no other stored
\* key has the key's slot; the list is not doubled further, and the entry
\* is written at hash(key) mod that length.
C13_FirstFreeLength ==
    /\ [](pc = "double" => HeldByOther(hashtable, args.key))
    /\ [](pc = "write" =>
            /\ len(hashtable) > args.len0
            /\ DoublingOf(args.len0, len(hashtable))
            /\ ~CollidesAt(hashtable, args.key, len(hashtable))
            /\ ~HeldByOther(hashtable, args.key)
            /\ \A l \in args.len0..(len(hashtable) - 1) :
                  DoublingOf(args.len0, l) => CollidesAt(hashtable, args.key, l))
    /\ [][pc = "write" =>
            /\ pc' = "idle"
            /\ hashtable' =
                  [hashtable EXCEPT ![(hash(args.key) % Len(hashtable)) + 1]
                                       = <<args.key, args.value>>]
         ]_vars

\* A set is about to write after two doublings, into a list of three entries.
C13_Witness ==
    /\ pc = "write"
    /\ len(hashtable) = 4 * args.len0
    /\ Len(items(hashtable)) >= 3

\* The slot of the key, hash(key) mod the length, holds the key.
HeldByKey(t, key) ==
    LET slot == t[(hash(key) % Len(t)) + 1]
    IN  slot # None /\ slot[1] = key

\* The value in the slot of the key.
SlotValue(t, key) == t[(hash(key) % Len(t)) + 1][2]

\* C14: in, get and [] leave the list, and so its length, unchanged and
\* start no growth; in is true exactly when the key's slot holds the key;
\* get returns the stored value then, and the default when the slot is
\* empty or holds another key; [] returns the stored value or raises.
C14_ReadsChangeNothing ==
    [][ret'.op \in {"contains", "get", "getitem"} =>
        /\ hashtable' = hashtable
        /\ len(hashtable') = len(hashtable)
        /\ pc' = "idle"
        /\ ret'.op = "contains" =>
              (ret'.result <=> HeldByKey(hashtable, ret'.key))
        /\ ret'.op = "get" =>
              ret'.result = IF HeldByKey(hashtable, ret'.key)
                            THEN SlotValue(hashtable, ret'.key)
                            ELSE ret'.value
        /\ ret'.op = "getitem" =>
              /\ ret'.raised <=> ~HeldByKey(hashtable, ret'.key)
              /\ ~ret'.raised => ret'.result = SlotValue(hashtable, ret'.key)
    ]_vars

\* get(key, 42) returned 42 for a key whose slot holds another key.
C14_Witness ==
    /\ ret.op = "get"
    /\ HeldByOther(hashtable, ret.key)
    /\ ret.value = 42
    /\ ret.result = 42

\* C15: a set of a key that is stored returns at once and overwrites in
\* place: the length is unchanged, the key's slot holds the key with the new
\* value and every other slot is unchanged; the same set again changes
\* nothing.
C15_OverwriteInPlace ==
    [][ /\ (pc = "idle" /\ pc' # "idle") => ~HeldByKey(hashtable, args'.key)
        /\ (pc = "idle" /\ ret'.op = "set" /\ HeldByKey(hashtable, ret'.key)) =>
              /\ ret'.found = "True"
              /\ len(hashtable') = len(hashtable)
              /\ hashtable' =
                    [hashtable EXCEPT ![(hash(ret'.key) % Len(hashtable)) + 1]
                                         = <<ret'.key, ret'.value>>]
              /\ \A i \in 1..Len(hashtable) :
                    i # (hash(ret'.key) % Len(hashtable)) + 1
                       => hashtable'[i] = hashtable[i]
        /\ (pc = "idle" /\ ret.op = "set" /\ ret'.op = "set"
               /\ ret'.key = ret.key /\ ret'.value = ret.value) =>
              /\ ret'.found = "True"
              /\ hashtable' = hashtable
              /\ written' = written
      ]_vars

\* A set has overwritten the value of a stored key in a list of three
\* entries.
C15_Witness ==
    /\ pc = "idle"
    /\ ret.op = "set"
    /\ ret.found = "True"
    /\ SlotValue(hashtable, ret.key) = ret.value
    /\ Len(items(hashtable)) >= 3

\* C16: a del that returned changed the slot of its key only: the length
\* is the same (the list is never shrunk) and every other stored key is in
\* its slot with its value.
C16_DelOnlyItsSlot ==
    [][(ret'.op = "del" /\ ~ret'.raised) =>
        /\ len(hashtable') = len(hashtable)
        /\ hashtable' = [hashtable EXCEPT
                            ![(hash(ret'.key) % Len(hashtable)) + 1] = None]
        /\ \A k \in StoredKeys(hashtable) \ {ret'.key} :
              /\ HeldByKey(hashtable', k)
              /\ SlotValue(hashtable', k) = SlotValue(hashtable, k)
    ]_vars

\* A del returned on a list of default size that had doubled once; two
\* other entries are still there.
C16_Witness ==
    /\ ret.op = "del"
    /\ ~ret.raised
    /\ size = INITIAL_SIZE
    /\ len(hashtable) = 2 * size
    /\ Len(items(hashtable)) = 2

\* __init__ sizes that are not powers of two, and the maps built with them.
OddSizes == {s \in 2..MaxOddSize : ~IsPowerOfTwo(s)}

InitOdd == \E s \in OddSizes : Construct(s)

OddSpec == InitOdd /\ [][Next]_vars

\* C17 as claimed: with an initial size that is not a power of two, doubling
\* a list that holds keys in distinct slots puts two of them in one slot of
\* the new list and an entry is lost.
C17_GrowthLosesEntry ==
    [][(pc = "double" /\ ~IsPowerOfTwo(len(hashtable))
           /\ Len(items(hashtable)) >= 2) =>
        /\ \E i, j \in 1..Len(hashtable) :
              /\ i # j /\ hashtable[i] # None /\ hashtable[j] # None
              /\ hash(hashtable[i][1]) % len(hashtable')
                    = hash(hashtable[j][1]) % len(hashtable')
        /\ Len(items(hashtable')) < Len(items(hashtable))
    ]_vars

\* C17 as amended: with an initial size that is not a power of two the
\* length is never a power of two, and still no doubling puts two stored
\* keys in one slot or loses an entry: every stored key is in the new list
\* with its value.
C17_OddGrowthKeepsEntries ==
    /\ [](~IsPowerOfTwo(len(hashtable)) /\ DoublingOf(size, len(hashtable)))
    /\ [][pc = "double" =>
            /\ len(hashtable') = 2 * len(hashtable)
            /\ \A i, j \in 1..Len(hashtable) :
                  (i # j /\ hashtable[i] # None /\ hashtable[j] # None)
                     => hash(hashtable[i][1]) % Len(hashtable')
                           # hash(hashtable[j][1]) % Len(hashtable')
            /\ \A k \in StoredKeys(hashtable) :
                  /\ HeldByKey(hashtable', k)
                  /\ SlotValue(hashtable', k) = SlotValue(hashtable, k)
            /\ StoredKeys(hashtable') = StoredKeys(hashtable)
            /\ Len(items(hashtable')) = Len(items(hashtable))
         ]_vars

\* A list of a length that is not a power of two has just been doubled with
\* three entries in it.
C17_Witness ==
    /\ pc \in {"double", "write"}
    /\ ~IsPowerOfTwo(size)
    /\ len(hashtable) >= 2 * args.len0
    /\ Len(items(hashtable)) >= 3

\* The index of the slot of key, hash(key) mod the length.
SlotIndex(t, key) == hash(key) % Len(t)

\* ks holds every stored key once, in increasing order of slot index.
InIndexOrder(ks, t) ==
    /\ Len(ks) = Cardinality({i \in 1..Len(t) : t[i] # None})
    /\ \A i \in 1..Len(ks) : HeldByKey(t, ks[i])
    /\ \A i, j \in 1..Len(ks) :
          i < j => SlotIndex(t, ks[i]) < SlotIndex(t, ks[j])

\* C18: items(), keys() and values() yield the occupied slots in increasing
\* index order, aligned: the i-th value is the value stored for the i-th
\* key, and items() yields exactly those pairs.
C18_IndexOrder ==
    /\ InIndexOrder(keys(hashtable), hashtable)
    /\ Len(values(hashtable)) = Len(keys(hashtable))
    /\ Len(items(hashtable)) = Len(keys(hashtable))
    /\ \A i \in 1..Len(keys(hashtable)) :
          /\ values(hashtable)[i] = SlotValue(hashtable, keys(hashtable)[i])
          /\ items(hashtable)[i] = <<keys(hashtable)[i], values(hashtable)[i]>>
    /\ ret.op \in {"keys", "iter"} => InIndexOrder(ret.result, hashtable)
    /\ ret.op = "values" =>
          /\ Len(ret.result) = Len(keys(hashtable))
          /\ \A i \in 1..Len(ret.result) :
                ret.result[i] = SlotValue(hashtable, keys(hashtable)[i])
    /\ ret.op = "items" =>
          /\ InIndexOrder([i \in 1..Len(ret.result) |-> ret.result[i][1]],
                          hashtable)
          /\ \A i \in 1..Len(ret.result) :
                ret.result[i][2] = SlotValue(hashtable, ret.result[i][1])

\* values() returned two different values for three keys that are not in
\* increasing key order (8 in slot 0 comes before 1 in slot 1).
C18_Witness ==
    /\ ret.op = "values"
    /\ Len(ret.result) = 3
    /\ ret.result[1] # ret.result[3]
    /\ keys(hashtable)[1] > keys(hashtable)[2]

\* C19: the map refines the dictionary of the history (each returned set
\* binds its key, each returned del unbinds it, a del that raised changes
\* nothing): in every state a key is contained exactly when the dictionary
\* binds it, get returns the dictionary's value for it and the default for
\* any other key, and the calls that returned agree with the dictionary.
C19_RefinesDict ==
    /\ \A k \in Keys \cup DOMAIN written \cup StoredKeys(hashtable) :
          /\ __contains__(hashtable, k) <=> k \in DOMAIN written
          /\ get(hashtable, k, 42) =
                IF k \in DOMAIN written THEN written[k] ELSE 42
    /\ ret.op = "contains" => (ret.result <=> ret.key \in DOMAIN written)
    /\ ret.op = "get" =>
          ret.result = IF ret.key \in DOMAIN written
                       THEN written[ret.key] ELSE ret.value
    /\ ret.op = "getitem" =>
          /\ ret.raised <=> ret.key \notin DOMAIN written
          /\ ~ret.raised => ret.result = written[ret.key]
    /\ ret.op = "set" =>
          (ret.key \in DOMAIN written /\ written[ret.key] = ret.value)
    /\ ret.op = "del" => ret.key \notin DOMAIN written

\* in returned True for a key of a list that has doubled and holds the two
\* keys the dictionary binds.
C19_Witness ==
    /\ ret.op = "contains"
    /\ ret.result
    /\ len(hashtable) >= 2 * size
    /\ Cardinality(DOMAIN written) = 2

============================================================================
